---- MODULE Spec2Model ----
(***************************************************************************)
(* State-machine model of the task tracker component App (src/src/App.tsx).*)
(*                                                                         *)
(* React state is modelled as React keeps it: the variables tasks, title,  *)
(* dueDate and message hold the values of the last render (the values the  *)
(* handlers' closures read), queue holds the state updates the setters     *)
(* have enqueued and the next render applies, and effectPending says that  *)
(* the effect of line 83 has to run for the committed render.  The clock   *)
(* is in milliseconds since 1970-01-01T00:00Z; a YYYY-MM-DD text is        *)
(* modelled by the number of its calendar day counted from 1970-01-01.     *)
(***************************************************************************)
EXTENDS Integers, Sequences, FiniteSets, TLC

VARIABLES
  tzOffset,           \* local time minus UTC of the machine, in ms
  clock,              \* the wall clock read by Date.now() and new Date()
  today,              \* line 115: new Date() of the last render
  tasks,              \* line 21
  title,              \* line 30
  dueDate,            \* line 36
  message,            \* line 31
  queue,              \* state updates enqueued by the setters, oldest first
  effectPending,      \* the effect of line 83 is scheduled
  slot,               \* localStorage item 'tasks': <<>> (no item) or <<text>>
  messageTimeoutRef,  \* line 33
  timers,             \* pending setTimeout timers
  nextTimerId,        \* the id the next setTimeout returns
  selectedDate,       \* line 32: <<>> (null) or <<the selected Date>>
  session,            \* "loading", "live", "crashed" or "ended" (unmounted)
  batching            \* events of one task are handled before the re-render

vars == <<tzOffset, clock, today, tasks, title, dueDate, message, queue,
          effectPending, slot, messageTimeoutRef, timers, nextTimerId,
          selectedDate, session, batching>>

----------------------------------------------------------------------------
(* Bounds of the model *)

MaxTasks == 2
MaxTimers == 3
MaxTicks == 1
MaxQueue == 4

HOUR == 60 * 60 * 1000
DAY == 24 * HOUR

\* Monday 1970-01-05 01:00 UTC; 1970-01-04 (day 3) is a Sunday.
ClockStart == 4 * DAY + HOUR
TickStep == 16 * HOUR
Offsets == {0 - 5 * HOUR, 0, 9 * HOUR}

NoDate == -1                 \* the empty dueDate text ''
Titles == {"", "a"}
DueDates == {3, 9}           \* 1970-01-04 (Sunday), 1970-01-10 (Saturday)

NullRef == 0                 \* messageTimeoutRef.current = null
DismissDelay == 3000

MsgInvalid == "enter task name and date"
MsgAdded == "task added"
MsgDeleted == "task deleted"
MsgCancelled == "cancelled"

----------------------------------------------------------------------------
(* Stored texts and JSON.  A text is [kind, items]:                        *)
(*   "tasks"      a JSON array of task objects, one tuple of the field     *)
(*                values per task in items                                 *)
(*   "null", "number", "object"   well-formed JSON that is no array        *)
(*   "malformed"  no JSON at all        "empty"   the empty string         *)
(* A slot <<[kind |-> "unreadable", ...]>> is a storage whose getItem      *)
(* throws.  A parsed value is [kind, items] with kind "array", "null",     *)
(* "number" or "object".                                                   *)

JSONstringify(ts) ==
  [kind |-> "tasks",
   items |-> [i \in 1..Len(ts) |->
                <<ts[i].id, ts[i].title, ts[i].dueDate, ts[i].isDone>>]]

\* a parser that does not bring isDone back
JSONparseDropsDone(text) ==
  IF text.kind = "tasks"
    THEN [threw |-> FALSE, kind |-> "array",
          items |-> [i \in 1..Len(text.items) |->
             [id |-> text.items[i][1], title |-> text.items[i][2],
              dueDate |-> text.items[i][3], isDone |-> FALSE]]]
    ELSE IF text.kind \in {"null", "number", "object"}
      THEN [threw |-> FALSE, kind |-> text.kind, items |-> <<>>]
      ELSE [threw |-> TRUE, kind |-> "none", items |-> <<>>]

\* JSON.parse(text): the value, or threw = TRUE for a SyntaxError
JSONparse(text) ==
  IF text.kind = "tasks"
    THEN [threw |-> FALSE, kind |-> "array",
          items |-> [i \in 1..Len(text.items) |->
             [id |-> text.items[i][1], title |-> text.items[i][2],
              dueDate |-> text.items[i][3], isDone |-> text.items[i][4]]]]
    ELSE IF text.kind \in {"null", "number", "object"}
      THEN [threw |-> FALSE, kind |-> text.kind, items |-> <<>>]
      ELSE [threw |-> TRUE, kind |-> "none", items |-> <<>>]

\* line 24 / 26: []
EmptyArray == [kind |-> "array", items |-> <<>>]

\* lines 21-28: the initial value of tasks
load(stored) ==
  IF stored = <<>> \/ stored[1].kind \in {"unreadable", "empty"}
    THEN EmptyArray
    ELSE IF JSONparse(stored[1]).threw
      THEN EmptyArray
      ELSE [kind |-> JSONparse(stored[1]).kind,
            items |-> JSONparse(stored[1]).items]

----------------------------------------------------------------------------
(* Dates *)

\* new Date("YYYY-MM-DD"): a date-only text is read as midnight UTC
Date(text) == text * DAY

\* toISOString().split('T')[0]: the UTC calendar day
toISODate(d) == d \div DAY

\* the local calendar day of an instant
localDay(d) == (d + tzOffset) \div DAY

\* getDay(): 0 = Sunday; 1970-01-01 was a Thursday
getDay(d) == (localDay(d) + 4) % 7

\* toDateString(): weekday and local calendar day, no time of day
toDateString(d) == <<getDay(d), localDay(d)>>

\* d.setDate(d.getDate() + n): same local time of day, n days later
addDays(d, n) == d + n * DAY

isSameDay(d1, d2) == toDateString(d1) = toDateString(d2)

isInThisWeek(date) ==
  LET now == today
      start == addDays(now, 0 - getDay(now))
      end == addDays(now, 6 - getDay(now))
  IN  date >= start /\ date <= end /\ ~isSameDay(date, now)

todayTasks ==
  SelectSeq(tasks, LAMBDA task : isSameDay(Date(task.dueDate), today))

thisWeekTasks ==
  SelectSeq(tasks, LAMBDA task : isInThisWeek(Date(task.dueDate)))

otherTasks ==
  SelectSeq(tasks, LAMBDA task :
    ~isSameDay(Date(task.dueDate), today) /\ ~isInThisWeek(Date(task.dueDate)))

selectedDateTasks ==
  SelectSeq(tasks, LAMBDA task :
    IF selectedDate # <<>>
      THEN isSameDay(Date(task.dueDate), selectedDate[1])
      ELSE FALSE)

----------------------------------------------------------------------------
(* React state updates *)

Pending(var) == SelectSeq(queue, LAMBDA u : u.var = var)

\* the value the next render gives the state variable var
Applied(var, cur) ==
  IF Pending(var) = <<>> THEN cur ELSE Pending(var)[Len(Pending(var))].val

\* setTasks(v): a new array is never identical to the current one
setTasks(q, v) == Append(q, [var |-> "tasks", val |-> v])

\* setTitle / setDueDate / setMessage: nothing is scheduled when no update
\* is pending and the value is the current one
setValue(q, var, cur, v) ==
  IF q = <<>> /\ v = cur THEN q ELSE Append(q, [var |-> var, val |-> v])

\* the in-memory collection and the notification text
collection == Applied("tasks", tasks)
notification == Applied("message", message)

Idle == session = "live" /\ queue = <<>> /\ ~effectPending

\* an event handler can run: the render and the effect of the events before
\* it are done, or (batching) only their effect is and the handler runs
\* before the re-render of the earlier events of the same task
Ready ==
  /\ session = "live"
  /\ ~effectPending
  /\ queue = <<>> \/ (batching /\ Len(queue) < MaxQueue)

----------------------------------------------------------------------------
(* Operations *)

\* the component is mounted on an empty storage
Mounted ==
  /\ tzOffset \in Offsets
  /\ clock = ClockStart
  /\ today = ClockStart
  /\ slot = <<>>
  /\ tasks = load(slot).items
  /\ selectedDate = <<ClockStart>>
  /\ session = "live"
  /\ title = ""
  /\ dueDate = toISODate(ClockStart)
  /\ message = ""
  /\ queue = <<>>
  /\ effectPending = TRUE
  /\ messageTimeoutRef = NullRef
  /\ timers = {}
  /\ nextTimerId = 1

Init == Mounted /\ batching = FALSE

\* a show that leaves the timer of the call before pending
showMessageNoClear(msg, q) ==
  /\ queue' = setValue(q, "message", message, msg)
  /\ timers' = timers \cup {[id |-> nextTimerId, due |-> clock + DismissDelay]}
  /\ messageTimeoutRef' = nextTimerId
  /\ nextTimerId' = nextTimerId + 1

\* a show that cancels the timer of the call before and forgets its own
showMessageNoRef(msg, q) ==
  /\ queue' = setValue(q, "message", message, msg)
  /\ timers' =
       (IF messageTimeoutRef # NullRef
          THEN {t \in timers : t.id # messageTimeoutRef}
          ELSE timers)
       \cup {[id |-> nextTimerId, due |-> clock + DismissDelay]}
  /\ messageTimeoutRef' = messageTimeoutRef
  /\ nextTimerId' = nextTimerId + 1

\* lines 44-48; q holds the updates the calling handler enqueued before
showMessage(msg, q) ==
  /\ queue' = setValue(q, "message", message, msg)
  /\ timers' =
       (IF messageTimeoutRef # NullRef
          THEN {t \in timers : t.id # messageTimeoutRef}
          ELSE timers)
       \cup {[id |-> nextTimerId, due |-> clock + DismissDelay]}
  /\ messageTimeoutRef' = nextTimerId
  /\ nextTimerId' = nextTimerId + 1

\* lines 58-63
newTask == [id |-> clock, title |-> title, dueDate |-> dueDate, isDone |-> FALSE]

\* a create that appends instead of prepending
withNewTaskAtEnd(ts) == ts \o <<newTask>>

\* line 64
withNewTask(ts) == <<newTask>> \o ts

\* a create that validates the title alone
addTaskTitleOnly ==
  /\ Ready
  /\ nextTimerId <= MaxTimers
  /\ IF title = ""
       THEN showMessage(MsgInvalid, queue)
       ELSE /\ Len(tasks) < MaxTasks
            /\ showMessage(MsgAdded,
                 setValue(setValue(setTasks(queue, withNewTask(tasks)),
                                   "title", title, ""),
                          "dueDate", dueDate, NoDate))
  /\ UNCHANGED <<selectedDate, session, batching, tzOffset, clock, today, tasks, title, dueDate, message,
                 effectPending, slot>>

\* lines 53-68
addTask ==
  /\ Ready
  /\ nextTimerId <= MaxTimers
  /\ IF title = "" \/ dueDate = NoDate
       THEN showMessage(MsgInvalid, queue)
       ELSE /\ Len(tasks) < MaxTasks
            /\ showMessage(MsgAdded,
                 setValue(setValue(setTasks(queue, withNewTask(tasks)),
                                   "title", title, ""),
                          "dueDate", dueDate, NoDate))
  /\ UNCHANGED <<selectedDate, session, batching, tzOffset, clock, today, tasks, title, dueDate, message,
                 effectPending, slot>>

\* a filter with the comparison inverted
withoutTaskInverted(ts, id) == SelectSeq(ts, LAMBDA task : task.id = id)

\* line 75
withoutTask(ts, id) == SelectSeq(ts, LAMBDA task : task.id # id)

\* a delete that does not look at the answer of window.confirm
deleteTaskUnasked(id, confirmed) ==
  /\ Ready
  /\ nextTimerId <= MaxTimers
  /\ showMessage(MsgDeleted, setTasks(queue, withoutTask(tasks, id)))
  /\ UNCHANGED <<selectedDate, session, batching, tzOffset, clock, today, tasks, title, dueDate, message,
                 effectPending, slot>>

\* lines 73-80; confirmed is the answer of window.confirm
deleteTask(id, confirmed) ==
  /\ Ready
  /\ nextTimerId <= MaxTimers
  /\ IF confirmed
       THEN showMessage(MsgDeleted, setTasks(queue, withoutTask(tasks, id)))
       ELSE showMessage(MsgCancelled, queue)
  /\ UNCHANGED <<selectedDate, session, batching, tzOffset, clock, today, tasks, title, dueDate, message,
                 effectPending, slot>>

\* a toggle that moves the flipped task to the front
updatedMovedToFront(ts, id) ==
  [i \in 1..Len(SelectSeq(ts, LAMBDA task : task.id = id)) |->
     [SelectSeq(ts, LAMBDA task : task.id = id)[i] EXCEPT
        !.isDone = ~SelectSeq(ts, LAMBDA task : task.id = id)[i].isDone]]
  \o SelectSeq(ts, LAMBDA task : task.id # id)

\* a toggle that marks the task done whatever it was
updatedSetsDone(ts, id) ==
  [i \in 1..Len(ts) |->
     IF ts[i].id = id THEN [ts[i] EXCEPT !.isDone = TRUE] ELSE ts[i]]

\* lines 91-93
updated(ts, id) ==
  [i \in 1..Len(ts) |->
     IF ts[i].id = id THEN [ts[i] EXCEPT !.isDone = ~ts[i].isDone] ELSE ts[i]]

\* lines 90-95
toggleTaskDone(id) ==
  /\ Ready
  /\ queue' = setTasks(queue, updated(tasks, id))
  /\ UNCHANGED <<selectedDate, session, batching, tzOffset, clock, today, tasks, title, dueDate, message,
                 effectPending, slot, messageTimeoutRef, timers, nextTimerId>>

\* line 170
SetTitle(t) ==
  /\ Ready
  /\ t # title
  /\ queue' = setValue(queue, "title", title, t)
  /\ UNCHANGED <<selectedDate, session, batching, tzOffset, clock, today, tasks, title, dueDate, message,
                 effectPending, slot, messageTimeoutRef, timers, nextTimerId>>

\* line 176
SetDueDate(d) ==
  /\ Ready
  /\ d # dueDate
  /\ queue' = setValue(queue, "dueDate", dueDate, d)
  /\ UNCHANGED <<selectedDate, session, batching, tzOffset, clock, today, tasks, title, dueDate, message,
                 effectPending, slot, messageTimeoutRef, timers, nextTimerId>>

\* a callback that leaves the message as it is
TimerFiresKeepsMessage(t) ==
  /\ session = "live" => Idle
  /\ t \in timers
  /\ clock >= t.due
  /\ timers' = timers \ {t}
  /\ queue' = queue
  /\ UNCHANGED <<selectedDate, session, batching, tzOffset, clock, today, tasks, title, dueDate, message,
                 effectPending, slot, messageTimeoutRef, nextTimerId>>

\* line 47: the callback of a timer that has run out; setMessage on a
\* component that is no longer mounted changes nothing
TimerFires(t) ==
  /\ session = "live" => Idle
  /\ t \in timers
  /\ clock >= t.due
  /\ timers' = timers \ {t}
  /\ queue' = IF session = "live"
                THEN setValue(queue, "message", message, "")
                ELSE queue
  /\ UNCHANGED <<selectedDate, session, batching, tzOffset, clock, today, tasks, title, dueDate, message,
                 effectPending, slot, messageTimeoutRef, nextTimerId>>

\* an effect that depends on the length of tasks only
effectScheduledOnLength == Len(Applied("tasks", tasks)) # Len(tasks)

\* line 85: the effect runs when tasks was set (a new array each time)
effectScheduled == Pending("tasks") # <<>>

\* App() runs again: the enqueued updates become the state, line 115 reads
\* the clock, and the effect of line 83 is scheduled when tasks was set
Render ==
  /\ session = "live"
  /\ queue # <<>>
  /\ tasks' = Applied("tasks", tasks)
  /\ title' = Applied("title", title)
  /\ dueDate' = Applied("dueDate", dueDate)
  /\ message' = Applied("message", message)
  /\ today' = clock
  /\ effectPending' = (effectPending \/ effectScheduled)
  /\ selectedDate' = Applied("selectedDate", selectedDate)
  /\ queue' = <<>>
  /\ UNCHANGED <<session, batching, tzOffset, clock, slot, messageTimeoutRef,
                 timers, nextTimerId>>

\* line 84
saved(ts) == <<JSONstringify(ts)>>

\* lines 83-85
SaveEffect ==
  /\ session = "live"
  /\ queue = <<>>
  /\ effectPending
  /\ slot' = saved(tasks)
  /\ effectPending' = FALSE
  /\ UNCHANGED <<selectedDate, session, batching, tzOffset, clock, today, tasks, title, dueDate, message,
                 queue, messageTimeoutRef, timers, nextTimerId>>

\* time passes
Tick ==
  /\ Idle
  /\ clock + TickStep <= ClockStart + MaxTicks * TickStep
  /\ clock' = clock + TickStep
  /\ UNCHANGED <<selectedDate, session, batching, tzOffset, today, tasks, title, dueDate, message, queue,
                 effectPending, slot, messageTimeoutRef, timers, nextTimerId>>

\* the ids a handler can be called with: the rendered tasks pass their own
\* id (lines 139, 146); AbsentId stands for a number no task has
AbsentId == ClockStart - 1
IdInputs == {tasks[i].id : i \in DOMAIN tasks} \cup {AbsentId}

Next ==
  \/ addTask
  \/ \E id \in IdInputs, confirmed \in BOOLEAN : deleteTask(id, confirmed)
  \/ \E id \in IdInputs : toggleTaskDone(id)
  \/ \E t \in Titles : SetTitle(t)
  \/ \E d \in DueDates \cup {NoDate} : SetDueDate(d)
  \/ \E t \in timers : TimerFires(t)
  \/ Render
  \/ SaveEffect
  \/ Tick

Spec == Init /\ [][Next]_vars

----------------------------------------------------------------------------
(* Start of a session on a storage that holds something, and the calendar *)

MaxStored == 2

StoredIds == {ClockStart - 3 * HOUR, ClockStart - 2 * HOUR}
StoredTasks ==
  [id : StoredIds, title : {"a"}, dueDate : {3, 4}, isDone : BOOLEAN]
Collections == UNION {[1..n -> StoredTasks] : n \in 0..MaxStored}

StoredItems ==
  {<<>>}
  \cup {<<[kind |-> k, items |-> <<>>]>> :
          k \in {"unreadable", "empty", "malformed", "null", "number", "object"}}
  \cup {<<JSONstringify(c)>> : c \in Collections}

\* before the component is mounted
InitLoad ==
  /\ tzOffset \in Offsets
  /\ clock = ClockStart
  /\ today = ClockStart
  /\ slot \in StoredItems
  /\ tasks = <<>>
  /\ selectedDate = <<ClockStart>>
  /\ session = "loading"
  /\ title = ""
  /\ dueDate = toISODate(ClockStart)
  /\ message = ""
  /\ queue = <<>>
  /\ effectPending = FALSE
  /\ messageTimeoutRef = NullRef
  /\ timers = {}
  /\ nextTimerId = 1
  /\ batching = FALSE

\* lines 21-28 and the first render: tasks is what load returns; a value
\* that is no array has no filter method, so line 116 throws and React
\* removes the component
Mount ==
  /\ session = "loading"
  /\ IF load(slot).kind = "array"
       THEN /\ tasks' = load(slot).items
            /\ session' = "live"
            /\ effectPending' = TRUE
       ELSE /\ tasks' = tasks
            /\ session' = "crashed"
            /\ effectPending' = FALSE
  /\ UNCHANGED <<tzOffset, clock, today, title, dueDate, message, queue, slot,
                 messageTimeoutRef, timers, nextTimerId, selectedDate,
                 batching>>

\* the Date the calendar hands over for a chosen local calendar day
dateOfDay(day) == day * DAY - tzOffset

\* line 201: v is <<>> (null) or <<a Date>>
SetSelectedDate(v) ==
  /\ Ready
  /\ v # selectedDate
  /\ queue' = Append(queue, [var |-> "selectedDate", val |-> v])
  /\ UNCHANGED <<selectedDate, session, batching, tzOffset, clock, today,
                 tasks, title, dueDate, message, effectPending, slot,
                 messageTimeoutRef, timers, nextTimerId>>

SelectableDays == {3, 4}

NextLoad ==
  \/ Mount
  \/ SaveEffect
  \/ \E v \in {<<>>} \cup {<<dateOfDay(day)>> : day \in SelectableDays} :
       SetSelectedDate(v)
  \/ Render

SpecLoad == InitLoad /\ [][NextLoad]_vars

----------------------------------------------------------------------------
(* The dismissal timer, with time in steps of half a second, and the end   *)
(* of the session                                                          *)

MaxMs == 10

MsStep == DismissDelay \div 6

\* time passes; a timer that has run out fires before time goes on
TickMs ==
  /\ session = "live" => Idle
  /\ clock + MsStep <= ClockStart + MaxMs * MsStep
  /\ \A t \in timers : clock + MsStep <= t.due
  /\ clock' = clock + MsStep
  /\ UNCHANGED <<selectedDate, session, batching, tzOffset, today, tasks,
                 title, dueDate, message, queue, effectPending, slot,
                 messageTimeoutRef, timers, nextTimerId>>

\* the component is unmounted: App registers no cleanup (the effect of line
\* 83 returns nothing), so nothing calls clearTimeout
Teardown ==
  /\ Idle
  /\ session' = "ended"
  /\ UNCHANGED <<selectedDate, batching, tzOffset, clock, today, tasks,
                 title, dueDate, message, queue, effectPending, slot,
                 messageTimeoutRef, timers, nextTimerId>>

NextTimer ==
  \/ addTask
  \/ \E confirmed \in BOOLEAN : deleteTask(AbsentId, confirmed)
  \/ \E t \in Titles : SetTitle(t)
  \/ \E t \in timers : TimerFires(t)
  \/ Render
  \/ SaveEffect
  \/ TickMs
  \/ Teardown

SpecTimer == Init /\ [][NextTimer]_vars

----------------------------------------------------------------------------
(* Events handled before the re-render: the handlers of one render are     *)
(* called again while the updates of the events before are still enqueued, *)
(* so each of them reads the tasks, title and dueDate that render captured *)

InitBatched == Mounted /\ batching = TRUE

NextBatched ==
  \/ addTask
  \/ \E id \in IdInputs : deleteTask(id, TRUE)
  \/ \E id \in IdInputs : toggleTaskDone(id)
  \/ \E t \in Titles \ {""} : SetTitle(t)
  \/ \E d \in {3} : SetDueDate(d)
  \/ Render
  \/ SaveEffect
  \/ Tick

SpecBatched == InitBatched /\ [][NextBatched]_vars

----------------------------------------------------------------------------
(* Properties *)

InView(view, task) == \E j \in DOMAIN view : view[j] = task

\* the calendar day of now and the Sunday that starts its week
dayOfNow == localDay(today)
weekStart == dayOfNow - getDay(today)

\* C1: no two tasks of the collection share an id, also when two creates
\* read the same clock value.
C1_UniqueIds ==
  \A i, j \in DOMAIN collection :
    i # j => collection[i].id # collection[j].id

\* C2: the views today, thisWeek and other are pairwise disjoint and cover
\* the collection, and a task due on the day of now is never in thisWeek.
C2_Partition ==
  /\ Len(todayTasks) + Len(thisWeekTasks) + Len(otherTasks) = Len(tasks)
  /\ \A i \in DOMAIN tasks :
       /\ Cardinality({v \in {"today", "thisWeek", "other"} :
            InView(CASE v = "today" -> todayTasks
                     [] v = "thisWeek" -> thisWeekTasks
                     [] v = "other" -> otherTasks, tasks[i])}) = 1
       /\ tasks[i].dueDate = dayOfNow => ~InView(thisWeekTasks, tasks[i])

\* C3: a task is in thisWeek exactly when its due day lies in the Sunday to
\* Saturday week of now, both ends included, and is not the day of now.
C3_ThisWeek ==
  \A i \in DOMAIN tasks :
    InView(thisWeekTasks, tasks[i]) <=>
      /\ weekStart <= tasks[i].dueDate
      /\ tasks[i].dueDate <= weekStart + 6
      /\ tasks[i].dueDate # dayOfNow

\* C4: a task is in today exactly when its due day is the local calendar
\* day of now.
C4_Today ==
  \A i \in DOMAIN tasks :
    InView(todayTasks, tasks[i]) <=> tasks[i].dueDate = dayOfNow

\* C5: toggleTaskDone(id) flips isDone of the task with that id and leaves
\* its other fields, every other task, the length and the order unchanged;
\* with no task of that id the collection is unchanged.
C5_ToggleFlipsOnly ==
  [][\A id \in IdInputs :
       toggleTaskDone(id) =>
         /\ Len(collection') = Len(collection)
         /\ \A i \in DOMAIN collection :
              /\ collection'[i].id = collection[i].id
              /\ collection'[i].title = collection[i].title
              /\ collection'[i].dueDate = collection[i].dueDate
              /\ collection'[i].isDone =
                   IF collection[i].id = id
                     THEN ~collection[i].isDone
                     ELSE collection[i].isDone
         /\ (\A i \in DOMAIN collection : collection[i].id # id)
              => collection' = collection]_vars

C5_Witness ==
  /\ Idle
  /\ Len(tasks) = 2
  /\ ~tasks[1].isDone
  /\ tasks[2].isDone
  /\ tasks[1].id # tasks[2].id

\* C6: a delete whose confirmation is refused changes neither the
\* collection nor the persisted slot, schedules no write, and makes the
\* notification the cancelled message.
C6_RefusedDelete ==
  [][\A id \in IdInputs :
       deleteTask(id, FALSE) =>
         /\ collection' = collection
         /\ slot' = slot
         /\ Pending("tasks")' = <<>>
         /\ notification' = MsgCancelled]_vars

C6_Witness ==
  /\ Idle
  /\ message = MsgCancelled
  /\ tasks # <<>>
  /\ slot = <<JSONstringify(tasks)>>

\* C7: a confirmed delete removes the task with the given id and keeps the
\* other tasks in their previous order; with no task of that id the
\* collection is unchanged; the deleted notification is emitted either way.
C7_ConfirmedDelete ==
  [][\A id \in IdInputs :
       deleteTask(id, TRUE) =>
         /\ collection' = SelectSeq(collection, LAMBDA task : task.id # id)
         /\ (\A i \in DOMAIN collection : collection[i].id # id)
              => collection' = collection
         /\ notification' = MsgDeleted]_vars

C7_Witness ==
  /\ Idle
  /\ message = MsgDeleted
  /\ Len(tasks) = 1

\* C8: addTask with an empty title or an empty dueDate changes neither the
\* collection, the form nor the persisted slot, builds no task, and shows
\* the validation notification.
C8_InvalidCreate ==
  [][(addTask /\ (title = "" \/ dueDate = NoDate)) =>
       /\ collection' = collection
       /\ Pending("tasks")' = <<>>
       /\ slot' = slot
       /\ Applied("title", title)' = title
       /\ Applied("dueDate", dueDate)' = dueDate
       /\ notification' = MsgInvalid]_vars

C8_Witness ==
  /\ Idle
  /\ message = MsgInvalid
  /\ title = "a"
  /\ dueDate = NoDate

NewestFirst ==
  \A i, j \in DOMAIN collection :
    i < j => collection[i].id >= collection[j].id

\* C9: a successful addTask puts one task with isDone = FALSE and the given
\* title and dueDate at the front and leaves the earlier tasks behind it in
\* their order, so the collection is always ordered newest-created-first.
C9_CreatePrepends ==
  /\ [](NewestFirst)
  /\ [][(addTask /\ title # "" /\ dueDate # NoDate) =>
          /\ Len(collection') = Len(collection) + 1
          /\ collection'[1].title = title
          /\ collection'[1].dueDate = dueDate
          /\ collection'[1].isDone = FALSE
          /\ Tail(collection') = collection]_vars

C9_Witness ==
  /\ Idle
  /\ Len(tasks) = 2
  /\ tasks[1].id > tasks[2].id
  /\ tasks[2].isDone

NoTaskArray == slot = <<>> \/ slot[1].kind # "tasks"

\* C11: load returns the empty collection whenever the slot is missing,
\* unreadable, malformed or holds well-formed content that is no array of
\* task records, and the session runs on it; only a stored array of task
\* records gives a non-empty collection.
C11_LoadFailsSoft ==
  session # "loading" =>
    /\ NoTaskArray =>
         /\ load(slot) = EmptyArray
         /\ session = "live"
         /\ tasks = <<>>
    /\ tasks # <<>> => ~NoTaskArray

\* C16: loading what the save of a valid collection c wrote gives c: the
\* same tasks in the same order with the same id, title, dueDate, isDone.
C16_RoundTrip ==
  \A c \in Collections :
    (session # "loading" /\ slot = saved(c)) =>
      /\ session = "live"
      /\ Len(tasks) = Len(c)
      /\ \A i \in DOMAIN c :
           /\ tasks[i].id = c[i].id
           /\ tasks[i].title = c[i].title
           /\ tasks[i].dueDate = c[i].dueDate
           /\ tasks[i].isDone = c[i].isDone

C16_Witness ==
  /\ session = "live"
  /\ effectPending
  /\ Len(tasks) = 2
  /\ tasks[1].isDone
  /\ ~tasks[2].isDone
  /\ tasks[1].id # tasks[2].id
  /\ slot = saved(tasks)

\* C17: selectedDateView holds exactly the tasks whose due day is the
\* calendar day of selectedDate, in collection order, and is empty when
\* selectedDate is unset.
C17_SelectedDateView ==
  session = "live" =>
    selectedDateTasks =
      IF selectedDate = <<>>
        THEN <<>>
        ELSE SelectSeq(tasks,
               LAMBDA task : task.dueDate = localDay(selectedDate[1]))

\* C12: a show resets the three-second window from the new call.  Every show
\* leaves exactly its own timer pending, due DismissDelay after the call, with
\* a message shown (so the timer of the call before can no longer clear it);
\* the message changes only at a show or when the pending timer fires, which
\* is at its due time and not earlier, and then the message is the empty
\* string.  After show(A) at 0 and show(B) at 1000 the message is therefore B
\* at 3500 and is cleared at 4000.
C12_ShowResetsWindow ==
  /\ [][nextTimerId' # nextTimerId =>
          /\ timers' = {[id |-> messageTimeoutRef', due |-> clock + DismissDelay]}
          /\ notification' # ""]_vars
  /\ [][notification' # notification =>
          \/ nextTimerId' # nextTimerId
          \/ /\ timers = {[id |-> messageTimeoutRef, due |-> clock]}
             /\ timers' = {}
             /\ notification' = ""]_vars
  /\ [][\A t \in timers :
          (session = "live" /\ TimerFires(t)) =>
            clock = t.due /\ notification' = ""]_vars

\* show(A) at 0, show(B) at 1000, and B is still shown at 3500
C12_Witness ==
  /\ clock = ClockStart + 3500
  /\ session = "live"
  /\ notification = MsgCancelled
  /\ nextTimerId = 3
  /\ timers = {[id |-> 2, due |-> ClockStart + 1000 + DismissDelay]}

\* C13: in every reachable state at most one dismissal timer is pending,
\* and each show leaves no timer of an earlier show pending.
C13_OneTimer ==
  /\ [](Cardinality(timers) <= 1)
  /\ [][nextTimerId' # nextTimerId =>
          \A t \in timers' : t.id = nextTimerId]_vars

\* a second show while the timer of the first is pending
C13_Witness ==
  /\ nextTimerId = 3
  /\ clock = ClockStart + 1000
  /\ \E t \in timers : t.id = 2 /\ t.due > clock

\* C14: when the session has ended no dismissal timer is pending, so no
\* dismissal callback fires after the teardown.
C14_TeardownCancels == session = "ended" => timers = {}

\* C19: in a live session a non-empty message has a pending dismissal timer,
\* the one messageTimeoutRef names, and unless a further show happens the
\* message stays until that timer fires and is the empty string then.
C19_Dismissed ==
  /\ []((session = "live" /\ notification # "") =>
          \E t \in timers : t.id = messageTimeoutRef /\ t.due >= clock)
  /\ [][\A t \in timers :
          (session = "live" /\ TimerFires(t)) => notification' = ""]_vars

\* a message was shown, its timer ran out and fired, and the message is gone
C19_Witness ==
  /\ session = "live"
  /\ clock = ClockStart + DismissDelay
  /\ nextTimerId = 2
  /\ timers = {}
  /\ notification = ""

\* C15: toggleTaskDone(id) applied twice to an existing task gives back the
\* collection before the first call: every toggle makes the collection
\* updated(collection, id), and toggling the result with the same id gives
\* the collection the first toggle started from, isDone of the task included.
C15_ToggleTwice ==
  [][\A id \in IdInputs :
       toggleTaskDone(id) =>
         /\ collection' = updated(collection, id)
         /\ updated(collection', id) = collection
         /\ \A i \in DOMAIN collection :
              updated(collection', id)[i].isDone = collection[i].isDone]_vars

\* the second toggle of a task has acted: tasks are created not done, so the
\* rendered task was toggled before, and the pending collection has it not
\* done again
C15_Witness ==
  /\ Len(tasks) = 2
  /\ tasks[1].isDone
  /\ tasks[1].id # tasks[2].id
  /\ Pending("tasks") # <<>>
  /\ collection = updated(tasks, tasks[1].id)
  /\ ~collection[1].isDone

\* C18: no mutation is lost.  Every create, toggle and confirmed delete,
\* also one handled while the updates of an earlier event wait for the
\* re-render, makes the collection the result of applying the operation to
\* the collection the events before it left.
C18_NoLostMutation ==
  [][/\ (addTask /\ title # "" /\ dueDate # NoDate) =>
          collection' = withNewTask(collection)
     /\ \A id \in IdInputs :
          toggleTaskDone(id) => collection' = updated(collection, id)
     /\ \A id \in IdInputs :
          deleteTask(id, TRUE) => collection' = withoutTask(collection, id)]_vars

====
